---- MODULE Spec2Model ----
(***************************************************************************)
(* MentorConnect: the in-memory store (MemStorage), the REST handlers that *)
(* call it (registerRoutes) and the arithmetic of the dashboard request.   *)
(*                                                                         *)
(* Encoding of JavaScript values                                           *)
(*   - an object is a function from its own keys to values; a key the      *)
(*     object does not have (reads as undefined) is not in its DOMAIN;     *)
(*   - a nullable field holds Null or Some(v);                             *)
(*   - a Map is a function from its keys to its values; its iteration      *)
(*     order (insertion order) is given by KeysInOrder;                    *)
(*   - a Date is its number of milliseconds, counted from the construction *)
(*     of the store;                                                       *)
(*   - a double is modelled bit-exactly (see FDiv, FAdd, MathRound).       *)
(***************************************************************************)
EXTENDS Integers, Sequences, FiniteSets, TLC

\* the server: the three Maps of MemStorage, the clock, the number of
\* identifiers generated, the last request answered and the register requests
\* in flight
VARIABLES users, sessions, kanbanItems, now, uuids, last, inflight

\* the browser: AuthManager.state and AuthManager.listeners, the value of
\* localStorage under "auth", the ProtectedRoute components, the number of
\* subscribe calls, the last writer of localStorage and the last call made
VARIABLES authState, listeners, localStorage, routes, subscriptions, written, event

serverVars == <<users, sessions, kanbanItems, now, uuids, last, inflight>>

clientVars == <<authState, listeners, localStorage, routes, subscriptions, written, event>>

vars == <<serverVars, clientVars>>

-----------------------------------------------------------------------------
(* Bounds of the model *)

MaxUuids == 2        \* randomUUID() calls over one run
MaxTick == 1         \* the clock readings 0..MaxTick, besides the seeded instants
MaxInflight == 2     \* register requests that can be in flight at once
MaxSubscribes == 3   \* subscribe calls over one run
MaxStartDay == 1     \* the schedule page is rendered on day 0..MaxStartDay
MaxDelay == 1        \* milliseconds the clock moves on during generateTimeSlots

-----------------------------------------------------------------------------
(* JavaScript values *)

Null == <<>>
Some(v) == <<v>>

\* what a method returns for "no such entity"; an entity e is returned as Some(e)
Undefined == <<>>

Has(o, k) == k \in DOMAIN o

\* { ...a, ...b }
Spread(a, b) ==
    [k \in (DOMAIN a) \cup (DOMAIN b) |-> IF k \in DOMAIN b THEN b[k] ELSE a[k]]

\* const { [k]: _, ...rest } = o
Without(o, k) == [f \in (DOMAIN o) \ {k} |-> o[f]]

\* ToBoolean of o[k] for a nullable string, number and array field
TruthyStr(o, k) == Has(o, k) /\ o[k] # Null /\ o[k][1] # ""
TruthyNum(o, k) == Has(o, k) /\ o[k] # Null /\ o[k][1] # 0
TruthyArr(o, k) == Has(o, k) /\ o[k] # Null

\* o[k] || null
OrNullStr(o, k) == IF TruthyStr(o, k) THEN o[k] ELSE Null
OrNullNum(o, k) == IF TruthyNum(o, k) THEN o[k] ELSE Null

-----------------------------------------------------------------------------
(* Time *)

TwoHours == 7200000
OneDay == 86400000

\* the clock readings the model distinguishes
Instants == (0..MaxTick) \cup {TwoHours}

-----------------------------------------------------------------------------
(* randomUUID: the n-th identifier generated; distinct calls give distinct *)
(* identifiers, none equal to a seeded id                                  *)

UuidPool == <<"uuid-1", "uuid-2", "uuid-3", "uuid-4", "uuid-5", "uuid-6">>

\* a generator that gives the same identifier again
randomUUIDRepeating == UuidPool[1]

randomUUID == UuidPool[uuids + 1]

\* keys of Map m in insertion order: the seeded keys, then the generated ones
KeysInOrder(m, seeded) ==
    SelectSeq(seeded \o SubSeq(UuidPool, 1, uuids), LAMBDA k : k \in DOMAIN m)

\* Array.from(m.values())
Values(m, seeded) ==
    LET keys == KeysInOrder(m, seeded) IN [i \in 1..Len(keys) |-> m[keys[i]]]

Range(s) == {s[i] : i \in 1..Len(s)}

\* array.filter(P)
Filter(s, P(_)) == SelectSeq(s, P)

\* array.find(P): the first element satisfying P
Find(s, P(_)) ==
    LET hits == SelectSeq(s, P) IN IF hits = <<>> THEN Undefined ELSE Some(hits[1])

-----------------------------------------------------------------------------
(* MemStorage.seedData *)

SeedUser(id, email, firstName, lastName, userType, area, bio, skills, hourlyRate, rating, reviewCount, avatarUrl) ==
    [id |-> id, email |-> email, password |-> "password123",
     firstName |-> firstName, lastName |-> lastName, userType |-> userType,
     area |-> area, bio |-> Some(bio), skills |-> Some(skills),
     hourlyRate |-> Some(hourlyRate), rating |-> Some(rating),
     reviewCount |-> Some(reviewCount), avatarUrl |-> Some(avatarUrl),
     createdAt |-> 0]

mentor1 ==
    SeedUser("mentor1", "ana@mentorconnect.com", "Ana", "Rodrigues", "mentor", "Tecnologia",
             "Especialista em React, Vue.js e desenvolvimento frontend moderno. 5+ anos de experiencia em startups.", <<"React", "JavaScript", "CSS", "TypeScript", "Vue.js">>,
             80, 49, 23, "https://images.unsplash.com/photo-1580489944761-15a19d654956?ixlib=rb-4.0.3&ixid=MnwxMjA3fDB8MHxwaG90by1wYWdlfHx8fGVufDB8fHx8&auto=format&fit=crop&w=150&h=150")

mentor2 ==
    SeedUser("mentor2", "roberto@mentorconnect.com", "Roberto", "Silva", "mentor", "Negocios",
             "Expert em estrategia de produto e growth. Ajudou 3 startups a escalar de 0 a 1M+ usuarios.", <<"Product Strategy", "Growth", "Analytics", "Leadership">>,
             120, 48, 31, "https://images.unsplash.com/photo-1507003211169-0a1dd7228f2d?ixlib=rb-4.0.3&ixid=MnwxMjA3fDB8MHxwaG90by1wYWdlfHx8fGVufDB8fHx8&auto=format&fit=crop&w=150&h=150")

mentor3 ==
    SeedUser("mentor3", "marina@mentorconnect.com", "Marina", "Costa", "mentor", "Design",
             "Designer experiente em UX/UI para produtos digitais. Especialista em pesquisa de usuario e design systems.", <<"UX Design", "Figma", "Research", "Prototyping", "Design Systems">>,
             100, 50, 18, "https://pixabay.com/get/geedf745d233a212f5c89ef71e170484f207c809c870ff0361c58185cf8efbd06edfc0c519e00accabea262039a7c9411b62f3b1e8d5f2ab06a3f8ffd963d7109_1280.jpg")

student ==
    SeedUser("student1", "joao@student.com", "Joao", "Silva", "student", "Tecnologia",
             "Estudante de Ciencia da Computacao buscando mentoria em desenvolvimento frontend.", <<"JavaScript", "HTML", "CSS">>,
             0, 0, 0, "https://images.unsplash.com/photo-1507003211169-0a1dd7228f2d?ixlib=rb-4.0.3&ixid=MnwxMjA3fDB8MHxwaG90by1wYWdlfHx8fGVufDB8fHx8&auto=format&fit=crop&w=100&h=100")

SeedUserOrder == <<"mentor1", "mentor2", "mentor3", "student1">>

SeedUsers ==
    [id \in Range(SeedUserOrder) |->
        CASE id = "mentor1" -> mentor1
          [] id = "mentor2" -> mentor2
          [] id = "mentor3" -> mentor3
          [] id = "student1" -> student]

session1 ==
    [id |-> "session1", studentId |-> "student1", mentorId |-> "mentor1",
     topic |-> "React Performance", description |-> Some("Revisar tecnicas de otimizacao em React"),
     scheduledAt |-> 0 + TwoHours, duration |-> 60, status |-> "confirmed", createdAt |-> 0]

session2 ==
    [id |-> "session2", studentId |-> "student1", mentorId |-> "mentor2",
     topic |-> "Product Strategy", description |-> Some("Discussao sobre estrategias de produto"),
     scheduledAt |-> 0 + OneDay, duration |-> 90, status |-> "pending", createdAt |-> 0]

SeedSessionOrder == <<"session1", "session2">>

SeedSessions ==
    [id \in Range(SeedSessionOrder) |-> IF id = "session1" THEN session1 ELSE session2]

SeedItem(id, title, description, type, status, points, assignee, priority, progress) ==
    [id |-> id, title |-> title, description |-> Some(description), type |-> type,
     status |-> status, points |-> Some(points), assignee |-> Some(assignee),
     priority |-> Some(priority), progress |-> Some(progress), createdAt |-> 0]

kanbanItemsData ==
    << SeedItem("kanban1", "Sistema de autenticacao completo",
                "Como usuario, quero poder me cadastrar e fazer login", "epic", "backlog", 8, "Joao Silva", "high", 0),
       SeedItem("kanban2", "Listagem de mentores com filtros",
                "Como estudante, quero filtrar mentores por area", "story", "backlog", 5, "Ana Santos", "medium", 0),
       SeedItem("kanban3", "Sistema de avaliacoes",
                "Permitir avaliacao de sessoes de mentoria", "feature", "backlog", 3, "Carlos Lima", "low", 0),
       SeedItem("kanban4", "Formulario de cadastro de usuario",
                "Criar formulario para estudantes se cadastrarem", "story", "todo", 3, "Maria Costa", "high", 0),
       SeedItem("kanban5", "Design do dashboard principal",
                "Criar wireframes e prototipos", "task", "todo", 2, "Pedro Silva", "medium", 0),
       SeedItem("kanban6", "API de autenticacao",
                "Implementar login/logout com JWT", "story", "in_progress", 5, "Joao Silva", "high", 70),
       SeedItem("kanban7", "Sistema de agendamento",
                "Permitir agendamento de sessoes", "feature", "in_progress", 8, "Ana Santos", "high", 40),
       SeedItem("kanban8", "Configuracao inicial do projeto",
                "Setup React + Node.js + PostgreSQL", "setup", "done", 1, "Joao Silva", "high", 100),
       SeedItem("kanban9", "Prototipo de alta fidelidade",
                "Design completo no Figma", "design", "done", 3, "Maria Costa", "medium", 100),
       SeedItem("kanban10", "Landing page",
                "Pagina inicial com informacoes da plataforma", "story", "done", 2, "Pedro Silva", "medium", 100) >>

SeedItemOrder == [i \in 1..Len(kanbanItemsData) |-> kanbanItemsData[i].id]

SeedItems ==
    [id \in Range(SeedItemOrder) |->
        kanbanItemsData[CHOOSE i \in 1..Len(kanbanItemsData) : kanbanItemsData[i].id = id]]

-----------------------------------------------------------------------------
(* MemStorage: users *)

UserValues == Values(users, SeedUserOrder)

getUser(id) == IF id \in DOMAIN users THEN Some(users[id]) ELSE Undefined

\* a lookup that only sees the seeded users
getUserByEmailSeededOnly(email) ==
    Find(SelectSeq(UserValues, LAMBDA user : user.id \in Range(SeedUserOrder)),
         LAMBDA user : user.email = email)

getUserByEmail(email) == Find(UserValues, LAMBDA user : user.email = email)

\* the User object built by createUser from its argument
NewUser(insertUser) ==
    Spread(insertUser,
           [id |-> randomUUID,
            rating |-> Some(0),
            reviewCount |-> Some(0),
            bio |-> OrNullStr(insertUser, "bio"),
            skills |-> IF TruthyArr(insertUser, "skills") THEN insertUser.skills ELSE Null,
            hourlyRate |-> OrNullNum(insertUser, "hourlyRate"),
            avatarUrl |-> OrNullStr(insertUser, "avatarUrl"),
            createdAt |-> now])

\* this.users.set(id, user)
MapSet(m, id, v) == [k \in (DOMAIN m) \cup {id} |-> IF k = id THEN v ELSE m[k]]

\* the users Map after createUser(insertUser)
createUser(insertUser) == MapSet(users, randomUUID, NewUser(insertUser))

\* an update that keeps only the fields it is given
updateUserReplacing(id, userData) ==
    IF id \notin DOMAIN users
    THEN [map |-> users, ret |-> Undefined]
    ELSE [map |-> MapSet(users, id, userData), ret |-> Some(userData)]

\* the users Map after updateUser(id, userData), and what the call returns
updateUser(id, userData) ==
    IF id \notin DOMAIN users
    THEN [map |-> users, ret |-> Undefined]
    ELSE [map |-> MapSet(users, id, Spread(users[id], userData)),
          ret |-> Some(Spread(users[id], userData))]

\* a listing that leaves the students in
getMentorsEveryone == UserValues

getMentors == Filter(UserValues, LAMBDA user : user.userType = "mentor")

getStudents == Filter(UserValues, LAMBDA user : user.userType = "student")

-----------------------------------------------------------------------------
(* shared/schema: insertUserSchema, loginSchema *)

UserRequired == {"email", "password", "firstName", "lastName", "userType", "area"}
UserOptional == {"bio", "skills", "hourlyRate", "avatarUrl"}

\* insertUserSchema.parse succeeds: the columns that are notNull are present
insertUserSchemaAccepts(body) == UserRequired \subseteq DOMAIN body

\* the parsed value: id, createdAt, rating and reviewCount are omitted from
\* the schema, and keys the schema does not have are dropped
insertUserSchemaParse(body) ==
    [k \in (DOMAIN body) \cap (UserRequired \cup UserOptional) |-> body[k]]

-----------------------------------------------------------------------------
(* Request bodies of the user routes *)

Emails == {"ana@mentorconnect.com", "new@mail.com", "other@mail.com"}

RequiredPart(email) ==
    [email |-> email, password |-> "password123", firstName |-> "Nova", lastName |-> "Pessoa",
     userType |-> IF email = "new@mail.com" THEN "student" ELSE "mentor",
     area |-> "Tecnologia"]

\* the optional columns left out, null, falsy, truthy, and truthy together
\* with keys the insert schema omits
OptionalPart(v) ==
    CASE v = "absent" -> << >>
      [] v = "null"   -> [bio |-> Null, skills |-> Null, hourlyRate |-> Null, avatarUrl |-> Null]
      [] v = "falsy"  -> [bio |-> Some(""), skills |-> Some(<< >>), hourlyRate |-> Some(0),
                          avatarUrl |-> Some("")]
      [] v = "truthy" -> [bio |-> Some("Bio"), skills |-> Some(<<"React">>),
                          hourlyRate |-> Some(50), avatarUrl |-> Some("avatar.png")]
      [] v = "extra"  -> [bio |-> Some("Bio"), hourlyRate |-> Some(0),
                          id |-> "mentor1", rating |-> Some(49), reviewCount |-> Some(7),
                          createdAt |-> 1]

OptionalVariants == {"absent", "null", "falsy", "truthy", "extra"}

RegisterBodies ==
    {Spread(RequiredPart(e), OptionalPart(v)) : e \in Emails, v \in OptionalVariants}
    \cup {Without(RequiredPart("new@mail.com"), "email")}

-----------------------------------------------------------------------------
(* registerRoutes: auth and user routes.  Each handler is one action: the  *)
(* store methods are synchronous, and a handler resumed after an await     *)
(* runs before the next request is taken up.                               *)

\* the answer of POST /api/auth/register to body, and the users Map after it
RegisterOutcome(body) ==
    IF ~insertUserSchemaAccepts(body)
    THEN [map |-> users, status |-> 400, json |-> [message |-> "Dados invalidos"]]
    ELSE LET userData == insertUserSchemaParse(body)
             existingUser == getUserByEmail(userData.email)
         IN IF existingUser # Undefined
            THEN [map |-> users, status |-> 409, json |-> [message |-> "Email ja esta em uso"]]
            ELSE [map |-> createUser(userData), status |-> 201,
                  json |-> [user |-> Without(NewUser(userData), "password"),
                            token |-> "mock-jwt-token"]]

\* POST /api/auth/register
Register(body) ==
    LET out == RegisterOutcome(body)
    IN /\ out.status = 201 => uuids < MaxUuids
       /\ users' = out.map
       /\ uuids' = IF out.status = 201 THEN uuids + 1 ELSE uuids
       /\ last' = [op |-> "POST /api/auth/register", arg |-> body,
                   status |-> out.status, json |-> out.json]
       /\ UNCHANGED <<sessions, kanbanItems, now, inflight, clientVars>>

Passwords == {"password123", "wrongpass"}

\* the texts of the requests that are not email addresses
NotEmails == {"", "not-an-email"}

\* loginSchema.parse succeeds: email is an email address and password has at
\* least 6 characters
loginSchemaAccepts(email, password) == email \notin NotEmails /\ Len(password) >= 6

\* an answer that carries the user as stored
LoginOutcomeWholeUser(email, password) ==
    IF ~loginSchemaAccepts(email, password)
    THEN [status |-> 400, json |-> [message |-> "Dados invalidos"]]
    ELSE LET user == getUserByEmail(email)
         IN IF user = Undefined \/ user[1].password # password
            THEN [status |-> 401, json |-> [message |-> "Email ou senha incorretos"]]
            ELSE [status |-> 200, json |-> [user |-> user[1], token |-> "mock-jwt-token"]]

\* the answer of POST /api/auth/login
LoginOutcome(email, password) ==
    IF ~loginSchemaAccepts(email, password)
    THEN [status |-> 400, json |-> [message |-> "Dados invalidos"]]
    ELSE LET user == getUserByEmail(email)
         IN IF user = Undefined \/ user[1].password # password
            THEN [status |-> 401, json |-> [message |-> "Email ou senha incorretos"]]
            ELSE [status |-> 200,
                  json |-> [user |-> Without(user[1], "password"), token |-> "mock-jwt-token"]]

\* POST /api/auth/login
Login(email, password) ==
    LET out == LoginOutcome(email, password)
    IN /\ last' = [op |-> "POST /api/auth/login", arg |-> <<email, password>>,
                   status |-> out.status, json |-> out.json]
       /\ UNCHANGED <<users, sessions, kanbanItems, now, uuids, inflight, clientVars>>

\* GET /api/users/mentors
GetMentors ==
    /\ last' = [op |-> "GET /api/users/mentors", status |-> 200,
                json |-> [i \in 1..Len(getMentors) |-> Without(getMentors[i], "password")]]
    /\ UNCHANGED <<users, sessions, kanbanItems, now, uuids, inflight, clientVars>>

\* GET /api/users/:id
GetUser(id) ==
    /\ last' = IF getUser(id) = Undefined
               THEN [op |-> "GET /api/users/:id", arg |-> id, status |-> 404,
                     json |-> [message |-> "Usuario nao encontrado"]]
               ELSE [op |-> "GET /api/users/:id", arg |-> id, status |-> 200,
                     json |-> Without(getUser(id)[1], "password")]
    /\ UNCHANGED <<users, sessions, kanbanItems, now, uuids, inflight, clientVars>>

\* storage.updateUser(id, userData): no route calls it
UpdateUser(id, userData) ==
    LET out == updateUser(id, userData)
    IN /\ users' = out.map
       /\ last' = [op |-> "updateUser", arg |-> <<id, userData>>, ret |-> out.ret]
       /\ UNCHANGED <<sessions, kanbanItems, now, uuids, inflight, clientVars>>

\* storage.getStudents(): no route calls it
GetStudents ==
    /\ last' = [op |-> "getStudents", ret |-> getStudents]
    /\ UNCHANGED <<users, sessions, kanbanItems, now, uuids, inflight, clientVars>>

-----------------------------------------------------------------------------
(* IEEE 754 binary64 arithmetic on the non-negative numbers of the         *)
(* dashboard request.  A number is int + hi / 2^30 + lo / 2^60 with        *)
(* 0 <= hi, lo < 2^30; a result is rounded to 53 significant bits, ties to *)
(* even.                                                                   *)

Limb == 1073741824
HalfLimb == 32768
Significand == 53

RECURSIVE BitLen(_)
BitLen(n) == IF n = 0 THEN 0 ELSE 1 + BitLen(n \div 2)

\* the exact sum of two numbers
ExactAdd(a, b) ==
    LET lo == a.lo + b.lo
        hi == a.hi + b.hi + (lo \div Limb)
    IN [int |-> a.int + b.int + (hi \div Limb), hi |-> hi % Limb, lo |-> lo % Limb]

\* x rounded to the nearest double; sticky: the exact value is above x by
\* less than 2^-60
Round53(x, sticky) ==
    LET kept == IF x.int > 0 THEN Significand - BitLen(x.int)
                ELSE (30 - BitLen(x.hi)) + Significand
        u == 60 - kept
    IN IF u <= 0 \/ (x.int = 0 /\ x.hi = 0) THEN x
       ELSE LET unit == 2 ^ u
                half == 2 ^ (u - 1)
                rest == x.lo % unit
                odd == (x.lo \div unit) % 2 = 1
                trunc == [x EXCEPT !.lo = x.lo - rest]
                up == rest > half \/ (rest = half /\ (sticky \/ odd))
            IN IF up THEN ExactAdd(trunc, [int |-> 0, hi |-> 0, lo |-> unit]) ELSE trunc

\* n / m for integers n >= 0 and 0 < m < 2^16
FDiv(n, m) ==
    LET r0 == n % m
        r1 == (r0 * HalfLimb) % m
        r2 == (r1 * HalfLimb) % m
        r3 == (r2 * HalfLimb) % m
        r4 == (r3 * HalfLimb) % m
    IN Round53([int |-> n \div m,
                hi |-> ((r0 * HalfLimb) \div m) * HalfLimb + ((r1 * HalfLimb) \div m),
                lo |-> ((r2 * HalfLimb) \div m) * HalfLimb + ((r3 * HalfLimb) \div m)],
               r4 # 0)

\* a + b
FAdd(a, b) == Round53(ExactAdd(a, b), FALSE)

\* x * n for a double x and an integer 0 <= n < 2^16
FMul(x, n) ==
    LET p4 == (x.lo % HalfLimb) * n
        p3 == (x.lo \div HalfLimb) * n + (p4 \div HalfLimb)
        p2 == (x.hi % HalfLimb) * n + (p3 \div HalfLimb)
        p1 == (x.hi \div HalfLimb) * n + (p2 \div HalfLimb)
    IN Round53([int |-> x.int * n + (p1 \div HalfLimb),
                hi |-> (p1 % HalfLimb) * HalfLimb + (p2 % HalfLimb),
                lo |-> (p3 % HalfLimb) * HalfLimb + (p4 % HalfLimb)],
               FALSE)

\* the number 0
FZero == [int |-> 0, hi |-> 0, lo |-> 0]

\* Math.round(x): the nearest integer, a half going up
MathRound(x) == x.int + (IF 2 * x.hi >= Limb THEN 1 ELSE 0)

-----------------------------------------------------------------------------
(* MemStorage: sessions *)

\* o[k] === v, for a property that may be undefined
Is(o, k, v) == Has(o, k) /\ o[k] = v

SessionValues == Values(sessions, SeedSessionOrder)

\* a session that is always created pending
NewSessionAlwaysPending(insertSession) ==
    Spread(insertSession,
           [id |-> randomUUID,
            description |-> OrNullStr(insertSession, "description"),
            status |-> "pending",
            createdAt |-> now])

NewSession(insertSession) ==
    Spread(insertSession,
           [id |-> randomUUID,
            description |-> OrNullStr(insertSession, "description"),
            status |-> IF Has(insertSession, "status") /\ insertSession.status # ""
                       THEN insertSession.status ELSE "pending",
            createdAt |-> now])

\* the sessions Map after createSession(insertSession)
createSession(insertSession) == MapSet(sessions, randomUUID, NewSession(insertSession))

\* a filter that looks at the student only
getUserSessionsAsStudent(userId) ==
    Filter(SessionValues, LAMBDA session : session.studentId = userId)

getUserSessions(userId) ==
    Filter(SessionValues,
           LAMBDA session : session.studentId = userId \/ session.mentorId = userId)

\* a filter that also takes the sessions starting now
getUpcomingSessionsFromNow(userId) ==
    Filter(SessionValues,
           LAMBDA session : /\ (session.studentId = userId \/ session.mentorId = userId)
                            /\ session.scheduledAt >= now
                            /\ ~Is(session, "status", "cancelled"))

getUpcomingSessions(userId) ==
    Filter(SessionValues,
           LAMBDA session : /\ (session.studentId = userId \/ session.mentorId = userId)
                            /\ session.scheduledAt > now
                            /\ ~Is(session, "status", "cancelled"))

\* { ...session, status }: status is Some(text), or Undefined
\* an update that also moves the session to the next day
WithStatusPostponing(session, status) ==
    IF status = Undefined THEN Spread(Without(session, "status"), [scheduledAt |-> OneDay])
    ELSE Spread(session, [status |-> status[1], scheduledAt |-> OneDay])

WithStatus(session, status) ==
    IF status = Undefined THEN Without(session, "status")
    ELSE Spread(session, [status |-> status[1]])

\* an update that removes the session it cancels
updateSessionStatusRemovingCancelled(id, status) ==
    IF id \notin DOMAIN sessions
    THEN [map |-> sessions, ret |-> Undefined]
    ELSE [map |-> IF status = Some("cancelled")
                  THEN [k \in (DOMAIN sessions) \ {id} |-> sessions[k]]
                  ELSE MapSet(sessions, id, WithStatus(sessions[id], status)),
          ret |-> Some(WithStatus(sessions[id], status))]

\* the sessions Map after updateSessionStatus(id, status), and what the call returns
updateSessionStatus(id, status) ==
    IF id \notin DOMAIN sessions
    THEN [map |-> sessions, ret |-> Undefined]
    ELSE [map |-> MapSet(sessions, id, WithStatus(sessions[id], status)),
          ret |-> Some(WithStatus(sessions[id], status))]

-----------------------------------------------------------------------------
(* shared/schema: insertSessionSchema *)

SessionRequired == {"studentId", "mentorId", "topic", "scheduledAt", "duration"}
SessionOptional == {"description", "status"}

insertSessionSchemaAccepts(body) == SessionRequired \subseteq DOMAIN body

\* id and createdAt are omitted from the schema
insertSessionSchemaParse(body) ==
    [k \in (DOMAIN body) \cap (SessionRequired \cup SessionOptional) |-> body[k]]

-----------------------------------------------------------------------------
(* Request bodies of the session routes *)

SessionBody(studentId, mentorId, scheduledAt, duration) ==
    [studentId |-> studentId, mentorId |-> mentorId, topic |-> "Mentoria",
     scheduledAt |-> scheduledAt, duration |-> duration]

SessionBodies ==
    { Spread(SessionBody("student1", "mentor1", TwoHours, 80),
             [status |-> "completed", description |-> Some("Notas")]),
      Spread(SessionBody("student1", "mentor2", 1, 40),
             [status |-> "completed", description |-> Null, id |-> "session2"]),
      SessionBody("student1", "mentor3", 1, 30),
      Spread(SessionBody("mentor1", "mentor1", 1, 60),
             [status |-> "", description |-> Some("")]),
      Spread(SessionBody("student1", "mentor3", OneDay, 45),
             [status |-> "cancelled"]),
      Spread(SessionBody("ghost", "mentor1", 1, 90),
             [status |-> "archived", id |-> "session1", createdAt |-> 1]),
      Without(SessionBody("student1", "mentor1", 1, 60), "topic") }

\* the ids the requests name: seeded ones, a generated one, one never stored
SessionIds == {"session2", "uuid-1", "no-such-id"}

StatusBodies == { [status |-> "completed"], [status |-> "cancelled"], << >> }

QueryUserIds == {"student1", "mentor1"}

-----------------------------------------------------------------------------
(* registerRoutes: session routes and dashboard *)

\* POST /api/sessions
PostSession(body) ==
    /\ insertSessionSchemaAccepts(body) => uuids < MaxUuids
    /\ IF insertSessionSchemaAccepts(body)
       THEN LET sessionData == insertSessionSchemaParse(body)
            IN /\ sessions' = createSession(sessionData)
               /\ uuids' = uuids + 1
               /\ last' = [op |-> "POST /api/sessions", arg |-> body, status |-> 201,
                           json |-> NewSession(sessionData)]
       ELSE /\ UNCHANGED <<sessions, uuids>>
            /\ last' = [op |-> "POST /api/sessions", arg |-> body, status |-> 400,
                        json |-> [message |-> "Dados invalidos"]]
    /\ UNCHANGED <<users, kanbanItems, now, inflight, clientVars>>

\* GET /api/sessions/user/:userId
GetUserSessions(userId) ==
    /\ last' = [op |-> "GET /api/sessions/user/:userId", arg |-> userId, status |-> 200,
                json |-> getUserSessions(userId)]
    /\ UNCHANGED <<users, sessions, kanbanItems, now, uuids, inflight, clientVars>>

\* a query that marks the sessions whose time has come as completed
GetUpcomingSessionsCompletingPast(userId) ==
    /\ last' = [op |-> "GET /api/sessions/upcoming/:userId", arg |-> userId, status |-> 200,
                at |-> now, json |-> getUpcomingSessions(userId)]
    /\ sessions' = [id \in DOMAIN sessions |->
                       IF sessions[id].scheduledAt <= now
                       THEN WithStatus(sessions[id], Some("completed")) ELSE sessions[id]]
    /\ UNCHANGED <<users, kanbanItems, now, uuids, inflight, clientVars>>

\* GET /api/sessions/upcoming/:userId
GetUpcomingSessions(userId) ==
    /\ last' = [op |-> "GET /api/sessions/upcoming/:userId", arg |-> userId, status |-> 200,
                at |-> now, json |-> getUpcomingSessions(userId)]
    /\ UNCHANGED <<users, sessions, kanbanItems, now, uuids, inflight, clientVars>>

\* PATCH /api/sessions/:id/status
PatchSessionStatus(id, body) ==
    LET status == IF Has(body, "status") THEN Some(body.status) ELSE Undefined
        out == updateSessionStatus(id, status)
    IN /\ sessions' = out.map
       /\ last' = IF out.ret = Undefined
                  THEN [op |-> "PATCH /api/sessions/:id/status", arg |-> <<id, body>>,
                        ret |-> out.ret, status |-> 404,
                        json |-> [message |-> "Sessao nao encontrada"]]
                  ELSE [op |-> "PATCH /api/sessions/:id/status", arg |-> <<id, body>>,
                        ret |-> out.ret, status |-> 200, json |-> out.ret[1]]
       /\ UNCHANGED <<users, kanbanItems, now, uuids, inflight, clientVars>>

\* completedSessions.reduce((sum, s) => sum + (s.duration / 60), 0)
RECURSIVE TotalHours(_)
TotalHours(completedSessions) ==
    IF completedSessions = << >> THEN FZero
    ELSE FAdd(TotalHours(SubSeq(completedSessions, 1, Len(completedSessions) - 1)),
              FDiv(completedSessions[Len(completedSessions)].duration, 60))

\* stats that count one mentor per session
DashboardStatsPerSession(userId) ==
    LET allSessions == getUserSessions(userId)
        upcomingSessions == getUpcomingSessions(userId)
        completedSessions == Filter(allSessions, LAMBDA s : Is(s, "status", "completed"))
    IN [scheduledSessions |-> Len(upcomingSessions),
        connectedMentors |-> Len(allSessions),
        mentoringHours |-> MathRound(TotalHours(completedSessions)),
        averageRating |-> "4.8"]

\* the stats object of GET /api/dashboard/stats/:userId
DashboardStats(userId) ==
    LET allSessions == getUserSessions(userId)
        upcomingSessions == getUpcomingSessions(userId)
        completedSessions == Filter(allSessions, LAMBDA s : Is(s, "status", "completed"))
        connectedMentors == Cardinality({allSessions[i].mentorId : i \in 1..Len(allSessions)})
        totalHours == TotalHours(completedSessions)
    IN [scheduledSessions |-> Len(upcomingSessions),
        connectedMentors |-> connectedMentors,
        mentoringHours |-> MathRound(totalHours),
        averageRating |-> "4.8"]

\* GET /api/dashboard/stats/:userId
GetDashboardStats(userId) ==
    /\ last' = [op |-> "GET /api/dashboard/stats/:userId", arg |-> userId, status |-> 200,
                at |-> now, json |-> DashboardStats(userId)]
    /\ UNCHANGED <<users, sessions, kanbanItems, now, uuids, inflight, clientVars>>

\* time passes between two requests
Tick ==
    /\ \E t \in Instants : t > now /\ now' = t
    /\ UNCHANGED <<users, sessions, kanbanItems, uuids, last, inflight, clientVars>>

-----------------------------------------------------------------------------
(* MemStorage: kanban items *)

KanbanValues == Values(kanbanItems, SeedItemOrder)

getKanbanItems == KanbanValues

NewKanbanItem(insertItem) ==
    Spread(insertItem,
           [id |-> randomUUID,
            description |-> OrNullStr(insertItem, "description"),
            points |-> OrNullNum(insertItem, "points"),
            assignee |-> OrNullStr(insertItem, "assignee"),
            priority |-> OrNullStr(insertItem, "priority"),
            progress |-> OrNullNum(insertItem, "progress"),
            status |-> IF Has(insertItem, "status") /\ insertItem.status # ""
                       THEN insertItem.status ELSE "backlog",
            createdAt |-> now])

\* the kanbanItems Map after createKanbanItem(insertItem)
createKanbanItem(insertItem) == MapSet(kanbanItems, randomUUID, NewKanbanItem(insertItem))

\* an update that inserts when the id is unknown
updateKanbanItemUpsert(id, itemData) ==
    [map |-> MapSet(kanbanItems, id,
                    IF id \in DOMAIN kanbanItems THEN Spread(kanbanItems[id], itemData)
                    ELSE itemData),
     ret |-> Some(IF id \in DOMAIN kanbanItems THEN Spread(kanbanItems[id], itemData)
                  ELSE itemData)]

\* the kanbanItems Map after updateKanbanItem(id, itemData), and what the call returns
updateKanbanItem(id, itemData) ==
    IF id \notin DOMAIN kanbanItems
    THEN [map |-> kanbanItems, ret |-> Undefined]
    ELSE [map |-> MapSet(kanbanItems, id, Spread(kanbanItems[id], itemData)),
          ret |-> Some(Spread(kanbanItems[id], itemData))]

\* a delete that always reports success
deleteKanbanItemAlwaysTrue(id) ==
    [map |-> [k \in (DOMAIN kanbanItems) \ {id} |-> kanbanItems[k]], ret |-> TRUE]

\* the kanbanItems Map after deleteKanbanItem(id), and what the call returns
deleteKanbanItem(id) ==
    [map |-> [k \in (DOMAIN kanbanItems) \ {id} |-> kanbanItems[k]],
     ret |-> id \in DOMAIN kanbanItems]

-----------------------------------------------------------------------------
(* shared/schema: insertKanbanItemSchema *)

KanbanRequired == {"title", "type"}
KanbanOptional == {"description", "status", "points", "assignee", "priority", "progress"}

insertKanbanItemSchemaAccepts(body) == KanbanRequired \subseteq DOMAIN body

\* id and createdAt are omitted from the schema
insertKanbanItemSchemaParse(body) ==
    [k \in (DOMAIN body) \cap (KanbanRequired \cup KanbanOptional) |-> body[k]]

-----------------------------------------------------------------------------
(* Request bodies of the kanban routes *)

KanbanBody == [title |-> "Nova tarefa", type |-> "task"]

KanbanBodies ==
    { KanbanBody,
      Spread(KanbanBody, [description |-> Some(""), status |-> "", points |-> Some(0),
                          assignee |-> Some(""), priority |-> Some(""), progress |-> Some(0)]),
      Spread(KanbanBody, [description |-> Some("Texto"), status |-> "todo", points |-> Some(5),
                          assignee |-> Some("Ana"), priority |-> Some("urgent"),
                          progress |-> Some(50)]),
      Spread(KanbanBody, [description |-> Null, points |-> Null, assignee |-> Null,
                          priority |-> Null, progress |-> Null]),
      Spread(KanbanBody, [status |-> "archived", points |-> Some(3), id |-> "kanban1",
                          createdAt |-> 1]),
      Without(KanbanBody, "title") }

KanbanPatchIds == {"kanban1", "uuid-1", "no-such-id"}

KanbanDeleteIds == {"kanban1", "kanban10", "uuid-1", "no-such-id"}

KanbanPatches ==
    { [status |-> "done"],
      [status |-> "archived", progress |-> Some(100)],
      [points |-> Some(0), id |-> "kanban2"],
      << >> }

-----------------------------------------------------------------------------
(* registerRoutes: kanban routes *)

\* GET /api/kanban
GetKanban ==
    /\ last' = [op |-> "GET /api/kanban", status |-> 200, json |-> getKanbanItems]
    /\ UNCHANGED <<users, sessions, kanbanItems, now, uuids, inflight, clientVars>>

\* POST /api/kanban
PostKanban(body) ==
    /\ insertKanbanItemSchemaAccepts(body) => uuids < MaxUuids
    /\ IF insertKanbanItemSchemaAccepts(body)
       THEN LET itemData == insertKanbanItemSchemaParse(body)
            IN /\ kanbanItems' = createKanbanItem(itemData)
               /\ uuids' = uuids + 1
               /\ last' = [op |-> "POST /api/kanban", arg |-> body, status |-> 201,
                           json |-> NewKanbanItem(itemData)]
       ELSE /\ UNCHANGED <<kanbanItems, uuids>>
            /\ last' = [op |-> "POST /api/kanban", arg |-> body, status |-> 400,
                        json |-> [message |-> "Dados invalidos"]]
    /\ UNCHANGED <<users, sessions, now, inflight, clientVars>>

\* PATCH /api/kanban/:id
PatchKanban(id, body) ==
    LET out == updateKanbanItem(id, body)
    IN /\ kanbanItems' = out.map
       /\ last' = IF out.ret = Undefined
                  THEN [op |-> "PATCH /api/kanban/:id", arg |-> <<id, body>>,
                        ret |-> out.ret, status |-> 404,
                        json |-> [message |-> "Item nao encontrado"]]
                  ELSE [op |-> "PATCH /api/kanban/:id", arg |-> <<id, body>>,
                        ret |-> out.ret, status |-> 200, json |-> out.ret[1]]
       /\ UNCHANGED <<users, sessions, now, uuids, inflight, clientVars>>

\* DELETE /api/kanban/:id
DeleteKanban(id) ==
    LET out == deleteKanbanItem(id)
    IN /\ kanbanItems' = out.map
       /\ last' = [op |-> "DELETE /api/kanban/:id", arg |-> id, ret |-> out.ret,
                   status |-> IF out.ret THEN 204 ELSE 404]
       /\ UNCHANGED <<users, sessions, now, uuids, inflight, clientVars>>

-----------------------------------------------------------------------------
(* POST /api/auth/register, one step per stretch between awaits, for       *)
(* requests that are in flight together:                                   *)
(*   RegisterBegin   parse, call getUserByEmail, await                     *)
(*   RegisterLookedUp  test existingUser, call createUser, await           *)
(*   RegisterCreated   answer 201                                          *)

Idle == [pc |-> "idle"]

RegisterBegin(r, body) ==
    /\ inflight[r].pc = "idle"
    /\ inflight' =
         [inflight EXCEPT ![r] =
            IF ~insertUserSchemaAccepts(body)
            THEN [pc |-> "done", status |-> 400]
            ELSE [pc |-> "awaitLookup",
                  userData |-> insertUserSchemaParse(body),
                  existingUser |-> getUserByEmail(insertUserSchemaParse(body).email)]]
    /\ UNCHANGED <<users, sessions, kanbanItems, now, uuids, last, clientVars>>

RegisterLookedUp(r) ==
    /\ inflight[r].pc = "awaitLookup"
    /\ IF inflight[r].existingUser # Undefined
       THEN /\ inflight' = [inflight EXCEPT ![r] = [pc |-> "done", status |-> 409]]
            /\ UNCHANGED <<users, uuids>>
       ELSE /\ uuids < MaxUuids
            /\ users' = createUser(inflight[r].userData)
            /\ uuids' = uuids + 1
            /\ inflight' = [inflight EXCEPT ![r] =
                              [pc |-> "awaitCreate", user |-> NewUser(inflight[r].userData)]]
    /\ UNCHANGED <<sessions, kanbanItems, now, last, clientVars>>

RegisterCreated(r) ==
    /\ inflight[r].pc = "awaitCreate"
    /\ inflight' = [inflight EXCEPT ![r] =
                      [pc |-> "done", status |-> 201,
                       json |-> [user |-> Without(inflight[r].user, "password"),
                                 token |-> "mock-jwt-token"]]]
    /\ UNCHANGED <<users, sessions, kanbanItems, now, uuids, last, clientVars>>

-----------------------------------------------------------------------------
(* client: AuthManager.  localStorage.getItem("auth") is Null when the key *)
(* is absent and Some(text) otherwise; a text is either the output of      *)
(* JSON.stringify, which JSON.parse turns back into the value, or a text   *)
(* that is not JSON, on which JSON.parse throws.                           *)

\* JSON.stringify(value), for a value made of objects, strings, numbers,
\* arrays and null
JSONstringify(value) == [valid |-> TRUE, value |-> value]

\* a text that JSON.parse rejects
NotJSON(chars) == [valid |-> FALSE, value |-> chars]

\* JSON.parse(text) returns, or throws
JSONparse(text) ==
    IF text.valid THEN [threw |-> FALSE, value |-> text.value] ELSE [threw |-> TRUE]

\* ToBoolean of a string read from localStorage
TruthyText(text) == text.valid \/ text.value # ""

\* the field initializer of AuthManager.state
NoAuth == [user |-> Null, token |-> Null]

\* a constructor that does not look at localStorage
AuthManagerNewSignedOut(stored) == [state |-> NoAuth, localStorage |-> stored]

\* new AuthManager() when localStorage holds stored under "auth": the state
\* of the new object, and localStorage after the constructor
AuthManagerNew(stored) ==
    IF stored = Null \/ ~TruthyText(stored[1])
    THEN [state |-> NoAuth, localStorage |-> stored]
    ELSE IF JSONparse(stored[1]).threw
         THEN [state |-> NoAuth, localStorage |-> Null]
         ELSE [state |-> JSONparse(stored[1]).value, localStorage |-> stored]

\* the pages behind ProtectedRoute, by path
Routes == {"/", "/kanban"}

\* a ProtectedRoute that is not rendered
Unmounted == [mounted |-> FALSE]

\* the listener ProtectedRoute c passes to subscribe, as the n-th subscriber
RouteListener(n, c) == [n |-> n, route |-> c, once |-> FALSE]

\* a listener of another subscriber; once: it calls its own unsubscribe
\* function when it is called
OtherListener(n, once) == [n |-> n, route |-> "", once |-> once]

\* listeners.indexOf(listener), from 1; 0 when it is not there
indexOf(array, listener) ==
    IF \E i \in 1..Len(array) : array[i] = listener
    THEN CHOOSE i \in 1..Len(array) :
            array[i] = listener /\ \A j \in 1..(i - 1) : array[j] # listener
    ELSE 0

\* the array after the function returned by subscribe(listener) has run
unsubscribe(array, listener) ==
    LET index == indexOf(array, listener)
    IN IF index > 0
       THEN SubSeq(array, 1, index - 1) \o SubSeq(array, index + 1, Len(array))
       ELSE array

\* this.listeners.forEach(listener => listener(state)) from index k on, for
\* an array that had len elements when forEach began: run is the listeners
\* array, the components and the listeners called so far
RECURSIVE forEach(_, _, _, _)
forEach(k, len, state, run) ==
    IF k > len THEN run
    ELSE IF k > Len(run.listeners) THEN forEach(k + 1, len, state, run)
    ELSE LET listener == run.listeners[k]
         IN forEach(k + 1, len, state,
                    [listeners |-> IF listener.once
                                   THEN unsubscribe(run.listeners, listener)
                                   ELSE run.listeners,
                     routes |-> IF listener.route \in Routes
                                THEN [run.routes EXCEPT ![listener.route].user = state.user]
                                ELSE run.routes,
                     called |-> Append(run.called, listener)])

\* setState(newState): the new state, the text written to localStorage and
\* the outcome of the notification
setState(newState) ==
    LET state == Spread(authState, newState)
    IN [state |-> state,
        localStorage |-> Some(JSONstringify(state)),
        run |-> forEach(1, Len(listeners), state,
                        [listeners |-> listeners, routes |-> routes, called |-> << >>])]

\* the users and the token the server's answers give to the browser
ClientUsers == {Without(student, "password"), Without(mentor1, "password")}

Tokens == {"mock-jwt-token"}

\* authManager.login(user, token)
login(user, token) ==
    LET out == setState([user |-> Some(user), token |-> Some(token)])
    IN /\ authState' = out.state
       /\ localStorage' = out.localStorage
       /\ listeners' = out.run.listeners
       /\ routes' = out.run.routes
       /\ written' = [by |-> "login", user |-> user, token |-> token]
       /\ event' = [op |-> "login", subscribed |-> listeners, called |-> out.run.called,
                    state |-> out.state]
       /\ UNCHANGED <<subscriptions, serverVars>>

\* authManager.logout()
logout ==
    LET out == setState([user |-> Null, token |-> Null])
    IN /\ authState' = out.state
       /\ localStorage' = Null
       /\ listeners' = out.run.listeners
       /\ routes' = out.run.routes
       /\ written' = [by |-> "logout"]
       /\ event' = [op |-> "logout", subscribed |-> listeners, called |-> out.run.called,
                    state |-> out.state]
       /\ UNCHANGED <<subscriptions, serverVars>>

\* the page is loaded again: new AuthManager(), and nothing is rendered yet
AuthManagerConstructor ==
    /\ authState' = AuthManagerNew(localStorage).state
    /\ localStorage' = AuthManagerNew(localStorage).localStorage
    /\ listeners' = << >>
    /\ routes' = [c \in Routes |-> Unmounted]
    /\ event' = [op |-> "new AuthManager", stored |-> localStorage, after |-> written]
    /\ UNCHANGED <<subscriptions, written, serverVars>>

\* the texts something other than AuthManager leaves under "auth"
ForeignTexts == {NotJSON(""), NotJSON("{oops")}

\* localStorage.setItem("auth", text) by something other than AuthManager
ForeignSetItem(text) ==
    /\ localStorage' = Some(text)
    /\ written' = [by |-> "other"]
    /\ event' = [op |-> "setItem"]
    /\ UNCHANGED <<authState, listeners, routes, subscriptions, serverVars>>

\* ProtectedRoute c renders for the first time: useState reads the current user
ProtectedRouteRender(c) ==
    /\ ~routes[c].mounted
    /\ routes' = [routes EXCEPT ![c] = [mounted |-> TRUE, user |-> authState.user,
                                        effect |-> FALSE]]
    /\ event' = [op |-> "render", route |-> c]
    /\ UNCHANGED <<authState, listeners, localStorage, subscriptions, written, serverVars>>

\* the effect of ProtectedRoute c runs: it subscribes
ProtectedRouteEffect(c) ==
    /\ routes[c].mounted /\ ~routes[c].effect
    /\ subscriptions < MaxSubscribes
    /\ listeners' = Append(listeners, RouteListener(subscriptions + 1, c))
    /\ subscriptions' = subscriptions + 1
    /\ routes' = [routes EXCEPT ![c] = [mounted |-> TRUE, user |-> routes[c].user,
                                        effect |-> TRUE,
                                        listener |-> RouteListener(subscriptions + 1, c)]]
    /\ event' = [op |-> "effect", route |-> c]
    /\ UNCHANGED <<authState, localStorage, written, serverVars>>

\* ProtectedRoute c is unmounted: the cleanup of its effect, if it has run,
\* calls unsubscribe
ProtectedRouteUnmount(c) ==
    /\ routes[c].mounted
    /\ listeners' = IF routes[c].effect THEN unsubscribe(listeners, routes[c].listener)
                    ELSE listeners
    /\ routes' = [routes EXCEPT ![c] = Unmounted]
    /\ event' = [op |-> "unmount", route |-> c]
    /\ UNCHANGED <<authState, localStorage, subscriptions, written, serverVars>>

\* what ProtectedRoute c shows
Rendered(c) == IF routes[c].user = Null THEN "AuthPage" ELSE c

\* authManager.subscribe(listener) by another subscriber
Subscribe(once) ==
    /\ subscriptions < MaxSubscribes
    /\ listeners' = Append(listeners, OtherListener(subscriptions + 1, once))
    /\ subscriptions' = subscriptions + 1
    /\ event' = [op |-> "subscribe", listener |-> OtherListener(subscriptions + 1, once)]
    /\ UNCHANGED <<authState, localStorage, routes, written, serverVars>>

\* the function returned by the n-th subscribe call is called, for a
\* subscriber other than a ProtectedRoute, whether or not it was called before
Unsubscribe(n, once) ==
    /\ n <= subscriptions
    /\ \A c \in Routes : routes[c].mounted /\ routes[c].effect => routes[c].listener.n # n
    /\ listeners' = unsubscribe(listeners, OtherListener(n, once))
    /\ event' = [op |-> "unsubscribe", listener |-> OtherListener(n, once),
                 subscribed |-> listeners]
    /\ UNCHANGED <<authState, localStorage, routes, subscriptions, written, serverVars>>

\* no request has been answered yet
NoCall == [op |-> "none"]

\* new MemStorage()
Init ==
    /\ users = SeedUsers
    /\ sessions = SeedSessions
    /\ kanbanItems = SeedItems
    /\ now = 0
    /\ uuids = 0
    /\ last = NoCall
    /\ inflight = [r \in 1..MaxInflight |-> Idle]
    /\ authState = AuthManagerNew(Null).state
    /\ localStorage = AuthManagerNew(Null).localStorage
    /\ listeners = << >>
    /\ routes = [c \in Routes |-> Unmounted]
    /\ subscriptions = 0
    /\ written = [by |-> "nobody"]
    /\ event = [op |-> "none"]

-----------------------------------------------------------------------------
(***************************************************************************)
(* The schedule page: generateTimeSlots.  A Date is its number of          *)
(* milliseconds of local time, day 0 starting at 0; a day has OneDay      *)
(* milliseconds (no change of daylight saving time within the week).       *)
(***************************************************************************)
OneHour == 3600000

\* date.setDate(today.getDate() + day)
setDate(today, day) == today + day * OneDay

\* slot.setHours(hour, 0, 0, 0)
setHours(date, hour) == (date \div OneDay) * OneDay + hour * OneHour

\* the k-th slot the two loops look at: 7 days of the hours 9..17
Candidates == [k \in 1..63 |-> [day |-> (k - 1) \div 9, hour |-> 9 + ((k - 1) % 9)]]

SlotAt(today, k) == setHours(setDate(today, Candidates[k].day), Candidates[k].hour)

\* what the k-th new Date() of the loop reads: the clock is at today when
\* the function starts and delay milliseconds later from the late-th
\* comparison on
Reading(today, late, delay, k) == today + (IF k >= late THEN delay ELSE 0)

slice(array, start, end) ==
    SubSeq(array, start + 1, IF Len(array) < end THEN Len(array) ELSE end)

\* a loop that also keeps the slot that starts at this very millisecond
generateTimeSlotsFromNow(today, late, delay) ==
    LET kept(k) == SlotAt(today, k) >= Reading(today, late, delay, k)
        pushed == SelectSeq([k \in 1..63 |-> k], kept)
    IN slice([i \in 1..Len(pushed) |-> SlotAt(today, pushed[i])], 0, 20)

generateTimeSlots(today, late, delay) ==
    LET kept(k) == SlotAt(today, k) > Reading(today, late, delay, k)
        pushed == SelectSeq([k \in 1..63 |-> k], kept)
    IN slice([i \in 1..Len(pushed) |-> SlotAt(today, pushed[i])], 0, 20)

\* the instants at which the page is rendered: every hour of the first days,
\* on the hour, a millisecond later and a millisecond before the next hour
ScheduleInstants ==
    {day * OneDay + hour * OneHour + ms :
        day \in 0..MaxStartDay, hour \in 0..23, ms \in {0, 1, OneHour - 1}}

\* the milliseconds the clock moves on while the loops run
Delays == 0..MaxDelay

\* the schedule page is rendered, at one of the instants the model
\* distinguishes
SchedulePageRender(late, delay) ==
    /\ now \in ScheduleInstants
    /\ event' = [op |-> "generateTimeSlots", today |-> now, late |-> late, delay |-> delay,
                 timeSlots |-> generateTimeSlots(now, late, delay)]
    /\ now' = now + delay
    /\ UNCHANGED <<authState, listeners, localStorage, routes, subscriptions, written,
                   users, sessions, kanbanItems, uuids, last, inflight>>

InitSchedule ==
    /\ users = SeedUsers
    /\ sessions = SeedSessions
    /\ kanbanItems = SeedItems
    /\ now \in ScheduleInstants
    /\ uuids = 0
    /\ last = NoCall
    /\ inflight = [r \in 1..MaxInflight |-> Idle]
    /\ authState = AuthManagerNew(Null).state
    /\ localStorage = AuthManagerNew(Null).localStorage
    /\ listeners = << >>
    /\ routes = [c \in Routes |-> Unmounted]
    /\ subscriptions = 0
    /\ written = [by |-> "nobody"]
    /\ event = [op |-> "none"]

\* the comparisons at which the clock may have moved on: those of the day of
\* the call and the first of the next day (every later one gives the same
\* answer with and without the delay)
Lates == 1..10

NextSchedule == \E late \in Lates, delay \in Delays : SchedulePageRender(late, delay)

SpecSchedule == InitSchedule /\ [][NextSchedule]_vars

-----------------------------------------------------------------------------
(* Specifications *)

UserIds == {"student1", "uuid-1", "no-such-id"}

UserPatches == { [bio |-> Some("Nova bio")], [hourlyRate |-> Some(0), userType |-> "mentor"] }

\* the user routes and the user methods no route calls
NextUsers ==
    \/ \E body \in RegisterBodies : Register(body)
    \/ \E email \in Emails, password \in Passwords : Login(email, password)
    \/ GetMentors
    \/ \E id \in UserIds : GetUser(id)
    \/ \E id \in UserIds, userData \in UserPatches : UpdateUser(id, userData)
    \/ GetStudents

\* the session routes, the dashboard and the clock
NextSessions ==
    \/ \E body \in SessionBodies : PostSession(body)
    \/ \E userId \in QueryUserIds : GetUserSessions(userId)
    \/ \E userId \in QueryUserIds : GetUpcomingSessions(userId)
    \/ \E id \in SessionIds, body \in StatusBodies : PatchSessionStatus(id, body)
    \/ \E userId \in QueryUserIds : GetDashboardStats(userId)
    \/ Tick

\* the kanban routes
NextKanban ==
    \/ GetKanban
    \/ \E body \in KanbanBodies : PostKanban(body)
    \/ \E id \in KanbanPatchIds, body \in KanbanPatches : PatchKanban(id, body)
    \/ \E id \in KanbanDeleteIds : DeleteKanban(id)

\* register requests in flight together
NextAsync ==
    \/ \E r \in 1..MaxInflight, body \in RegisterBodies : RegisterBegin(r, body)
    \/ \E r \in 1..MaxInflight : RegisterLookedUp(r)
    \/ \E r \in 1..MaxInflight : RegisterCreated(r)

SpecUsers == Init /\ [][NextUsers]_vars
SpecSessions == Init /\ [][NextSessions]_vars
SpecKanban == Init /\ [][NextKanban]_vars
SpecAsync == Init /\ [][NextAsync]_vars

\* registrations and logins with passwords of several lengths
LoginEmails == {"joao@student.com", "new@mail.com", "nobody@mail.com", "not-an-email"}

LoginPasswords == {"password123", "wrongpass", "abc"}

LoginRegisterBodies ==
    {Spread(RequiredPart("new@mail.com"), [password |-> password]) : password \in LoginPasswords}

NextLogin ==
    \/ \E body \in LoginRegisterBodies : Register(body)
    \/ \E email \in LoginEmails, password \in LoginPasswords : Login(email, password)
    \/ \E id \in UserIds : UpdateUser(id, [password |-> "wrongpass"])

SpecLogin == Init /\ [][NextLogin]_vars

\* the browser: AuthManager, its subscribers and localStorage
NextClient ==
    \/ \E user \in ClientUsers, token \in Tokens : login(user, token)
    \/ logout
    \/ AuthManagerConstructor
    \/ \E text \in ForeignTexts : ForeignSetItem(text)
    \/ \E c \in Routes : ProtectedRouteRender(c)
    \/ \E c \in Routes : ProtectedRouteEffect(c)
    \/ \E c \in Routes : ProtectedRouteUnmount(c)
    \/ \E once \in BOOLEAN : Subscribe(once)
    \/ \E n \in 1..MaxSubscribes, once \in BOOLEAN : Unsubscribe(n, once)

SpecClient == Init /\ [][NextClient]_vars

\* the requests of the run in which the three kinds of entity meet
FewRegisterBodies ==
    {Spread(RequiredPart(e), OptionalPart("extra")) : e \in {"ana@mentorconnect.com", "new@mail.com"}}

FewSessionBodies ==
    {body \in SessionBodies : Has(body, "topic") /\ body.mentorId = "mentor2"}
    \cup {body \in SessionBodies : ~Has(body, "topic")}

FewKanbanBodies == {body \in KanbanBodies : ~Has(body, "title") \/ Has(body, "id")}

FewIds(known) == {known, "no-such-id"}

\* every route and every store method, on few inputs
Next ==
    \/ \E body \in FewRegisterBodies : Register(body)
    \/ \E password \in Passwords : Login("joao@student.com", password)
    \/ GetMentors
    \/ \E id \in FewIds("student1") : GetUser(id)
    \/ \E id \in FewIds("student1") : UpdateUser(id, [bio |-> Some("Nova bio")])
    \/ GetStudents
    \/ \E body \in FewSessionBodies : PostSession(body)
    \/ GetUserSessions("student1")
    \/ GetUpcomingSessions("student1")
    \/ \E id \in FewIds("session2") : PatchSessionStatus(id, [status |-> "cancelled"])
    \/ GetDashboardStats("student1")
    \/ Tick
    \/ GetKanban
    \/ \E body \in FewKanbanBodies : PostKanban(body)
    \/ \E id \in FewIds("kanban1") : PatchKanban(id, [status |-> "done"])
    \/ \E id \in FewIds("kanban10") : DeleteKanban(id)

Spec == Init /\ [][Next]_vars

-----------------------------------------------------------------------------
(* Properties *)

\* this step is the answer to a request or call named op
Answered(op) == last'.op = op /\ (last.op = op => last' # last)

StoreUnchanged == users' = users /\ sessions' = sessions /\ kanbanItems' = kanbanItems

UsersWithEmail(email) == {id \in DOMAIN users : users[id].email = email}

EmailUniqueAll == \A a, b \in DOMAIN users : users[a].email = users[b].email => a = b

RegisterConflict ==
    (/\ Answered("POST /api/auth/register")
     /\ Has(last'.arg, "email")
     /\ UsersWithEmail(last'.arg.email) # {})
    => last'.status = 409 /\ users' = users

Answered201(r) == inflight[r].pc = "done" /\ inflight[r].status = 201

\* C2: of register requests with the same email that are in flight together
\* and interleave at the handler's awaits, at most one creates a user and at
\* most one answers 201.
C2_NoDuplicateRegistration ==
    /\ EmailUniqueAll
    /\ \A r1, r2 \in 1..MaxInflight :
         (/\ Answered201(r1) /\ Answered201(r2)
          /\ inflight[r1].json.user.email = inflight[r2].json.user.email)
         => r1 = r2

UpdateUnknownId ==
    /\ (Answered("updateUser") /\ last'.arg[1] \notin DOMAIN users)
       => last'.ret = Undefined /\ StoreUnchanged
    /\ (Answered("PATCH /api/sessions/:id/status") /\ last'.arg[1] \notin DOMAIN sessions)
       => last'.ret = Undefined /\ StoreUnchanged
    /\ (Answered("PATCH /api/kanban/:id") /\ last'.arg[1] \notin DOMAIN kanbanItems)
       => last'.ret = Undefined /\ StoreUnchanged
    /\ Answered("PATCH /api/sessions/:id/status")
       => (last'.status = 404 <=> last'.arg[1] \notin DOMAIN sessions)
    /\ Answered("PATCH /api/kanban/:id")
       => (last'.status = 404 <=> last'.arg[1] \notin DOMAIN kanbanItems)

\* C3: updateUser, updateSessionStatus and updateKanbanItem on an id that is
\* not stored return undefined and leave the three maps unchanged, and the
\* PATCH routes of sessions and kanban items answer 404 in exactly that case.
C3_UpdateUnknownIdAbsent == [][UpdateUnknownId]_vars

\* a kanban PATCH on an unknown id got 404 in a store in which an item, a
\* user and a session have changed since the seeding
C3_Witness ==
    /\ last.op = "PATCH /api/kanban/:id"
    /\ last.status = 404
    /\ last.ret = Undefined
    /\ last.arg[1] \notin DOMAIN kanbanItems
    /\ kanbanItems # SeedItems
    /\ users # SeedUsers
    /\ sessions # SeedSessions

DeleteStep ==
    /\ Answered("DELETE /api/kanban/:id")
       => /\ last'.ret = (last'.arg \in DOMAIN kanbanItems)
          /\ DOMAIN kanbanItems' = (DOMAIN kanbanItems) \ {last'.arg}
          /\ \A id \in DOMAIN kanbanItems' : kanbanItems'[id] = kanbanItems[id]
    /\ ~Answered("POST /api/kanban") => DOMAIN kanbanItems' \subseteq DOMAIN kanbanItems

\* C4: deleteKanbanItem(id) returns true exactly when an item is stored under
\* id, and removes it and nothing else; no step other than a create adds a
\* key, so after a delete every later delete of that id returns false and
\* changes nothing.
C4_DeleteOnce == [][DeleteStep]_vars

\* a second delete of a seeded item has just returned false
C4_Witness ==
    /\ last.op = "DELETE /api/kanban/:id"
    /\ last.arg = "kanban1"
    /\ last.ret = FALSE
    /\ last.status = 404

Participant(id, userId) == sessions[id].studentId = userId \/ sessions[id].mentorId = userId

\* the sessions of userId that are later than instant t and not cancelled
Upcoming(userId, t) ==
    {id \in DOMAIN sessions :
        /\ Participant(id, userId)
        /\ sessions[id].scheduledAt > t
        /\ ~(Has(sessions[id], "status") /\ sessions[id].status = "cancelled")}

SessionsOf(userId) == {id \in DOMAIN sessions : Participant(id, userId)}

\* C6: scheduledSessions is the number of upcoming sessions of the user and
\* connectedMentors the number of distinct mentorId values over all the
\* sessions in which the user is student or mentor.
C6_StatsCounts ==
    last.op = "GET /api/dashboard/stats/:userId"
    => /\ last.json.scheduledSessions = Cardinality(Upcoming(last.arg, last.at))
       /\ last.json.connectedMentors =
            Cardinality({sessions[id].mentorId : id \in SessionsOf(last.arg)})

\* stats of a user with more sessions than mentors, one of them upcoming
C6_Witness ==
    /\ last.op = "GET /api/dashboard/stats/:userId"
    /\ last.json.connectedMentors = 2
    /\ Cardinality(SessionsOf(last.arg)) = 3
    /\ last.json.scheduledSessions >= 1

RECURSIVE TotalMinutes(_)
TotalMinutes(ids) ==
    IF ids = {} THEN 0
    ELSE LET id == CHOOSE x \in ids : TRUE
         IN sessions[id].duration + TotalMinutes(ids \ {id})

CompletedOf(userId) == {id \in SessionsOf(userId) : Is(sessions[id], "status", "completed")}

\* C7: mentoringHours is the sum of duration / 60 over the completed
\* sessions of the user, rounded to the nearest integer, a half going up.
C7_MentoringHours ==
    last.op = "GET /api/dashboard/stats/:userId"
    => last.json.mentoringHours = (TotalMinutes(CompletedOf(last.arg)) + 30) \div 60

Created(op, map) == last.op = op /\ last.status = 201 /\ last.json.id \in DOMAIN map

\* C8: createKanbanItem stores the supplied points when points is supplied
\* (0 included) and 0 when it is left out.
C8_PointsDefaultZero ==
    Created("POST /api/kanban", kanbanItems)
    => kanbanItems[last.json.id].points =
         IF Has(last.arg, "points") /\ last.arg.points # Null THEN last.arg.points ELSE Some(0)

\* C9: createUser stores rating 0 and reviewCount 0, stores null or empty
\* for bio, skills, hourlyRate and avatarUrl when the input leaves them out,
\* and otherwise stores the supplied value unchanged (an hourlyRate of 0
\* included).
C9_CreateUserDefaults ==
    (last.op = "POST /api/auth/register" /\ last.status = 201)
    => LET user == users[last.json.user.id]
       IN /\ user.rating = Some(0)
          /\ user.reviewCount = Some(0)
          /\ \A f \in UserOptional :
               IF Has(last.arg, f) THEN user[f] = last.arg[f]
               ELSE user[f] \in {Null, Some(<< >>)}

\* C10 as stated: createSession stores "pending" when the input has no
\* status and the supplied status otherwise.
C10_StatusAsSupplied ==
    Created("POST /api/sessions", sessions)
    => sessions[last.json.id].status =
         IF Has(last.arg, "status") THEN last.arg.status ELSE "pending"

\* C10: createSession stores "pending" when the input has no status or an
\* empty one and the supplied status otherwise, stores description null when
\* the input has no description, and stores studentId, mentorId, topic,
\* scheduledAt and duration as supplied.
C10_CreateSessionDefaults ==
    Created("POST /api/sessions", sessions)
    => LET session == sessions[last.json.id]
       IN /\ session.status =
               IF Has(last.arg, "status") /\ last.arg.status # ""
               THEN last.arg.status ELSE "pending"
          /\ ~Has(last.arg, "description") => session.description = Null
          /\ \A f \in SessionRequired : session[f] = last.arg[f]

\* a session created from an input whose status is the empty string
C10_Witness ==
    /\ Created("POST /api/sessions", sessions)
    /\ Has(last.arg, "status") /\ last.arg.status = ""
    /\ sessions[last.json.id].status = "pending"

\* the entity a lookup found is e
Found(ret, e) == ret # Undefined /\ ret[1] = e

\* e is one of the entities of the array
Listed(array, e) == \E i \in 1..Len(array) : array[i] = e

\* what the last request or call created or updated is read back from the
\* store as it is now
ReadsBack ==
    /\ (last.op = "POST /api/auth/register" /\ last.status = 201)
       => LET user == Spread(last.json.user, [password |-> last.arg.password])
          IN /\ DOMAIN user = UserRequired \cup UserOptional
                                \cup {"id", "rating", "reviewCount", "createdAt"}
             /\ Found(getUser(user.id), user)
             /\ Found(getUserByEmail(user.email), user)
    /\ (last.op = "updateUser" /\ last.ret # Undefined)
       => /\ Found(getUser(last.ret[1].id), last.ret[1])
          /\ Found(getUserByEmail(last.ret[1].email), last.ret[1])
    /\ (last.op = "POST /api/sessions" /\ last.status = 201)
       => /\ DOMAIN last.json = SessionRequired \cup SessionOptional \cup {"id", "createdAt"}
          /\ Listed(getUserSessions(last.json.studentId), last.json)
          /\ Listed(getUserSessions(last.json.mentorId), last.json)
    /\ (last.op = "PATCH /api/sessions/:id/status" /\ last.status = 200)
       => /\ Listed(getUserSessions(last.json.studentId), last.json)
          /\ Listed(getUserSessions(last.json.mentorId), last.json)
    /\ (last.op = "POST /api/kanban" /\ last.status = 201)
       => /\ DOMAIN last.json = KanbanRequired \cup KanbanOptional \cup {"id", "createdAt"}
          /\ Listed(getKanbanItems, last.json)
    /\ (last.op = "PATCH /api/kanban/:id" /\ last.status = 200)
       => Listed(getKanbanItems, last.json)

\* the user createUser has returned to request r is read back
CreatedReadsBack(r) ==
    inflight[r].pc = "awaitCreate"
    => /\ Found(getUser(inflight[r].user.id), inflight[r].user)
       /\ Found(getUserByEmail(inflight[r].user.email), inflight[r].user)

\* C11: every create and every successful update returns the full entity,
\* and a lookup made right after it (getUser by the returned id,
\* getUserByEmail by its email, getUserSessions of a participant,
\* getKanbanItems) yields an entity equal to the returned one in every field;
\* for a register request in flight, right after its createUser has returned.
C11_ReadYourWrite ==
    /\ []ReadsBack
    /\ [][\A r \in 1..MaxInflight :
            inflight[r].pc # "awaitCreate" => CreatedReadsBack(r)']_vars

NeverRemoved ==
    /\ DOMAIN users \subseteq DOMAIN users'
    /\ DOMAIN sessions \subseteq DOMAIN sessions'
    /\ ~(DOMAIN kanbanItems \subseteq DOMAIN kanbanItems')
       => /\ Answered("DELETE /api/kanban/:id")
          /\ DOMAIN kanbanItems' = (DOMAIN kanbanItems) \ {last'.arg}

\* C12: a user id or a session id that is a key of the store stays a key in
\* every later state, whatever requests and store calls follow; a kanban
\* item disappears only in a step of deleteKanbanItem, which removes the item
\* it names.
C12_UsersAndSessionsStay == [][NeverRemoved]_vars

\* a kanban item has just been deleted from a store to which a user and a
\* session were added and in which a session was cancelled
C12_Witness ==
    /\ last.op = "DELETE /api/kanban/:id"
    /\ last.status = 204
    /\ last.arg \notin DOMAIN kanbanItems
    /\ Cardinality(DOMAIN users) = Cardinality(DOMAIN SeedUsers) + 1
    /\ Cardinality(DOMAIN sessions) = Cardinality(DOMAIN SeedSessions) + 1
    /\ sessions["session2"].status = "cancelled"

SessionStatuses == {"pending", "confirmed", "completed", "cancelled"}

\* C13: every stored session has a status among pending, confirmed,
\* completed and cancelled, whatever bodies POST /api/sessions and
\* PATCH /api/sessions/:id/status were sent.
C13_SessionStatusValid ==
    \A id \in DOMAIN sessions :
        Has(sessions[id], "status") /\ sessions[id].status \in SessionStatuses

\* C14: the studentId and the mentorId of every stored session are ids of
\* stored users.
C14_SessionUsersExist ==
    \A id \in DOMAIN sessions :
        sessions[id].studentId \in DOMAIN users /\ sessions[id].mentorId \in DOMAIN users

\* C15: every stored session has a studentId different from its mentorId.
C15_StudentIsNotMentor ==
    \A id \in DOMAIN sessions : sessions[id].studentId # sessions[id].mentorId

\* the step stored what it created under a key that map did not have, and
\* changed nothing else of map
AddsOne(id, map, mapNext) ==
    /\ id \notin DOMAIN map
    /\ DOMAIN mapNext = (DOMAIN map) \cup {id}
    /\ \A k \in DOMAIN map : mapNext[k] = map[k]

CreateStep ==
    /\ (Answered("POST /api/auth/register") /\ last'.status = 201)
       => AddsOne(last'.json.user.id, users, users')
    /\ (Answered("POST /api/sessions") /\ last'.status = 201)
       => AddsOne(last'.json.id, sessions, sessions')
    /\ (Answered("POST /api/kanban") /\ last'.status = 201)
       => AddsOne(last'.json.id, kanbanItems, kanbanItems')

\* C16: createUser, createSession and createKanbanItem store the new entity
\* under an id that was not a key of the map before: the map gains exactly
\* that key and every entity it had, seeded ones included, stays as it was.
C16_CreateAddsOne == [][CreateStep]_vars

\* an item and a session were created from bodies that carry the id of a
\* seeded entity; the seeded entities are as seeded
C16_Witness ==
    /\ last.op = "POST /api/kanban"
    /\ last.status = 201
    /\ Has(last.arg, "id") /\ last.arg.id \in DOMAIN SeedItems
    /\ last.json.id \notin DOMAIN SeedItems
    /\ kanbanItems[last.arg.id] = SeedItems[last.arg.id]
    /\ \E id \in (DOMAIN sessions) \ (DOMAIN SeedSessions) : sessions[id].id = id
    /\ sessions["session2"] = session2

\* new has the fields of patch as patch gives them, and every other field as
\* old has it
MergedOnto(old, new, patch) ==
    /\ DOMAIN new = (DOMAIN old) \cup (DOMAIN patch)
    /\ \A k \in DOMAIN patch : new[k] = patch[k]
    /\ \A k \in (DOMAIN old) \ (DOMAIN patch) : new[k] = old[k]

\* the step changed at most the entity stored under id
OthersSame(id, map, mapNext) ==
    /\ DOMAIN mapNext = DOMAIN map
    /\ \A k \in (DOMAIN map) \ {id} : mapNext[k] = map[k]

UpdateStep ==
    /\ (Answered("updateUser") /\ last'.ret # Undefined)
       => /\ MergedOnto(users[last'.arg[1]], users'[last'.arg[1]], last'.arg[2])
          /\ last'.ret = Some(users'[last'.arg[1]])
          /\ OthersSame(last'.arg[1], users, users')
          /\ sessions' = sessions /\ kanbanItems' = kanbanItems
    /\ (Answered("PATCH /api/kanban/:id") /\ last'.status = 200)
       => /\ MergedOnto(kanbanItems[last'.arg[1]], kanbanItems'[last'.arg[1]], last'.arg[2])
          /\ last'.ret = Some(kanbanItems'[last'.arg[1]])
          /\ OthersSame(last'.arg[1], kanbanItems, kanbanItems')
          /\ users' = users /\ sessions' = sessions
    /\ (Answered("PATCH /api/sessions/:id/status") /\ last'.status = 200)
       => /\ Without(sessions'[last'.arg[1]], "status") = Without(sessions[last'.arg[1]], "status")
          /\ Has(last'.arg[2], "status")
             => Is(sessions'[last'.arg[1]], "status", last'.arg[2].status)
          /\ last'.ret = Some(sessions'[last'.arg[1]])
          /\ OthersSame(last'.arg[1], sessions, sessions')
          /\ users' = users /\ kanbanItems' = kanbanItems

\* C17: a successful updateUser or updateKanbanItem leaves the entity with
\* every field of the partial data at the supplied value and every other
\* field at its previous value; a successful updateSessionStatus changes
\* nothing of the session but its status; all three leave every other entity
\* of the store as it was.
C17_ShallowMerge == [][UpdateStep]_vars

\* updateUser has just changed the bio of a user and nothing else, in a store
\* in which an item and a session had been updated before
C17_Witness ==
    /\ last.op = "updateUser"
    /\ last.ret # Undefined
    /\ users[last.arg[1]].bio = last.arg[2].bio
    /\ users[last.arg[1]].bio # SeedUsers[last.arg[1]].bio
    /\ Without(users[last.arg[1]], "bio") = Without(SeedUsers[last.arg[1]], "bio")
    /\ "kanban1" \in DOMAIN kanbanItems /\ kanbanItems["kanban1"].status = "done"
    /\ kanbanItems["kanban1"].title = SeedItems["kanban1"].title
    /\ sessions["session2"].status = "cancelled"

Mentors == {id \in DOMAIN users : users[id].userType = "mentor"}

\* C18: getMentors returns exactly the stored users whose userType is
\* "mentor", each once and no other user, in every reachable state, and
\* GET /api/users/mentors answers with them.
C18_MentorsExact ==
    /\ Range(getMentors) = {users[id] : id \in Mentors}
    /\ Len(getMentors) = Cardinality(Mentors)
    /\ last.op = "GET /api/users/mentors"
       => /\ Range(last.json) = {Without(users[id], "password") : id \in Mentors}
          /\ Len(last.json) = Cardinality(Mentors)

\* the listing has a registered mentor and a seeded user who became a
\* mentor, while a registered student is stored
C18_Witness ==
    /\ last.op = "GET /api/users/mentors"
    /\ \E i \in 1..Len(last.json) : last.json[i].id \notin DOMAIN SeedUsers
    /\ \E i \in 1..Len(last.json) : last.json[i].id = "student1"
    /\ \E id \in (DOMAIN users) \ (DOMAIN SeedUsers) : users[id].userType = "student"

\* C19: getUserSessions(userId) returns exactly the stored sessions whose
\* studentId or mentorId is userId, whatever their status and time, each
\* once, also when the user is both student and mentor of a session.
C19_UserSessionsExact ==
    /\ \A userId \in QueryUserIds \cup {"ghost", "mentor3"} :
         /\ Range(getUserSessions(userId)) = {sessions[id] : id \in SessionsOf(userId)}
         /\ Len(getUserSessions(userId)) = Cardinality(SessionsOf(userId))
    /\ last.op = "GET /api/sessions/user/:userId"
       => last.json = getUserSessions(last.arg)

\* the answer has, once, a cancelled session of the past whose student and
\* mentor are the user asked for, besides a session of another student
C19_Witness ==
    /\ last.op = "GET /api/sessions/user/:userId"
    /\ \E i \in 1..Len(last.json) :
         /\ last.json[i].studentId = last.arg /\ last.json[i].mentorId = last.arg
         /\ Is(last.json[i], "status", "cancelled")
         /\ last.json[i].scheduledAt < now
         /\ \A j \in 1..Len(last.json) : last.json[j].id = last.json[i].id => j = i
    /\ \E i \in 1..Len(last.json) : last.json[i].studentId # last.arg

KanbanStatuses == {"backlog", "todo", "in_progress", "done"}

\* C20: every stored kanban item has a status among backlog, todo,
\* in_progress and done, whatever bodies POST /api/kanban and
\* PATCH /api/kanban/:id were sent.
C20_KanbanStatusValid ==
    \A id \in DOMAIN kanbanItems :
        Has(kanbanItems[id], "status") /\ kanbanItems[id].status \in KanbanStatuses

\* the stored users with this email and this password
UsersWithCredentials(email, password) ==
    {id \in DOMAIN users : users[id].email = email /\ users[id].password = password}

LoginAnswer ==
    last.op = "POST /api/auth/login"
    => /\ last.status = 200 <=> UsersWithCredentials(last.arg[1], last.arg[2]) # {}
       /\ last.status = 200
          => last.json.user.id \in UsersWithCredentials(last.arg[1], last.arg[2])
       /\ last.status # 200 => last.status = 401 /\ ~Has(last.json, "user")

\* C21: POST /api/auth/login answers 200 with a user exactly when a stored
\* user has the given email and the given password; in every other case it
\* answers 401 without user data; and a login never changes the store.
C21_LoginIffCredentials ==
    /\ []LoginAnswer
    /\ [][Answered("POST /api/auth/login") => StoreUnchanged]_vars

\* C22: whatever login and logout calls were made, a rendered ProtectedRoute
\* shows its page only while AuthManager's current user is not null, and
\* shows the auth page whenever it is null; so no page stays rendered after
\* a logout.
C22_ProtectedRoutes ==
    \A c \in Routes :
        routes[c].mounted
        => /\ Rendered(c) = c => authState.user # Null
           /\ authState.user = Null => Rendered(c) = "AuthPage"

Reloaded == event.op = "new AuthManager"

\* an AuthManager built after a login, or after a logout, starts with what
\* that call left
StartsAsLeft ==
    /\ (Reloaded /\ event.after.by = "login")
       => /\ event.stored # Null
          /\ authState = [user |-> Some(event.after.user), token |-> Some(event.after.token)]
    /\ (Reloaded /\ event.after.by = "logout") => authState = NoAuth

\* C23 as stated: an AuthManager constructed while "auth" holds a text that
\* is not valid JSON starts with user and token null, and the key is removed.
C23_InvalidJsonRemoved ==
    /\ StartsAsLeft
    /\ (Reloaded /\ event.stored # Null /\ ~event.stored[1].valid)
       => authState = NoAuth /\ localStorage = Null

\* C23: an AuthManager constructed after login(user, token) starts with that
\* user and token, read from localStorage; one constructed after logout, or
\* while "auth" holds a text that is not valid JSON, starts with user and
\* token null; a text that is not valid JSON is removed when it is not
\* empty, and the empty text is left under the key.
C23_AuthRoundTrip ==
    /\ StartsAsLeft
    /\ (Reloaded /\ event.stored # Null /\ ~event.stored[1].valid)
       => /\ authState = NoAuth
          /\ localStorage = IF event.stored[1].value = "" THEN event.stored ELSE Null

\* an AuthManager has just started with the user and token of the login
\* before it
C23_Witness ==
    /\ Reloaded
    /\ event.after.by = "login"
    /\ authState.user = Some(event.after.user)
    /\ authState.token = Some(event.after.token)
    /\ localStorage = Some(JSONstringify(authState))

Notified == event.op \in {"login", "logout"}

\* C27: each login and logout calls every listener subscribed at the moment
\* of the call exactly once, also when a listener unsubscribes itself while
\* it is called, and calls no listener that had unsubscribed; the function
\* returned by subscribe removes its own listener and, called again, removes
\* none.
C27_EveryListenerOnce ==
    /\ Notified
       => /\ Range(event.called) = Range(event.subscribed)
          /\ Len(event.called) = Len(event.subscribed)
    /\ event.op = "unsubscribe"
       => /\ Range(listeners) = Range(event.subscribed) \ {event.listener}
          /\ Len(listeners) >= Len(event.subscribed) - 1

\* C24: every entry of the users, sessions and kanbanItems Maps is stored
\* under a key equal to the id field of the entity, whatever creates,
\* deletes and updates were made, an update's partial data naming id
\* included.
C24_KeyIsId ==
    /\ \A id \in DOMAIN users : users[id].id = id
    /\ \A id \in DOMAIN sessions : sessions[id].id = id
    /\ \A id \in DOMAIN kanbanItems : kanbanItems[id].id = id

\* the user object of a response: the stored user of that id, less its password
StoredLessPassword(user) ==
    /\ ~Has(user, "password")
    /\ user.id \in DOMAIN users
    /\ Has(users[user.id], "password")
    /\ DOMAIN user = (DOMAIN users[user.id]) \ {"password"}
    /\ \A f \in DOMAIN user : user[f] = users[user.id][f]

\* C25: the user objects in the answers of login, register,
\* GET /api/users/mentors and GET /api/users/:id have every stored field of
\* the user except password, in every reachable state of the store.
C25_NoPasswordInResponses ==
    /\ (last.op = "POST /api/auth/login" /\ last.status = 200)
       => StoredLessPassword(last.json.user)
    /\ (last.op = "POST /api/auth/register" /\ last.status = 201)
       => StoredLessPassword(last.json.user)
    /\ last.op = "GET /api/users/mentors"
       => \A i \in 1..Len(last.json) : StoredLessPassword(last.json[i])
    /\ (last.op = "GET /api/users/:id" /\ last.status = 200)
       => StoredLessPassword(last.json)
    /\ (last.op \in {"POST /api/auth/login", "POST /api/auth/register", "GET /api/users/:id"}
        /\ last.status \notin {200, 201})
       => ~Has(last.json, "user") /\ ~Has(last.json, "password")

\* a registered user has just logged in and the answer has its stored fields
\* but the password
C25_Witness ==
    /\ last.op = "POST /api/auth/login"
    /\ last.status = 200
    /\ last.json.user.id \notin DOMAIN SeedUsers
    /\ users[last.json.user.id].password = last.arg[2]
    /\ StoredLessPassword(last.json.user)

Queries ==
    {"POST /api/auth/login", "GET /api/users/mentors", "GET /api/users/:id", "getStudents",
     "GET /api/sessions/user/:userId", "GET /api/sessions/upcoming/:userId",
     "GET /api/kanban", "GET /api/dashboard/stats/:userId"}

UserOperations == {"POST /api/auth/register", "updateUser"}

SessionOperations == {"POST /api/sessions", "PATCH /api/sessions/:id/status"}

KanbanOperations == {"POST /api/kanban", "PATCH /api/kanban/:id", "DELETE /api/kanban/:id"}

FrameStep ==
    /\ (\E op \in Queries : Answered(op)) => StoreUnchanged
    /\ (\E op \in UserOperations : Answered(op))
       => sessions' = sessions /\ kanbanItems' = kanbanItems
    /\ (\E op \in SessionOperations : Answered(op))
       => users' = users /\ kanbanItems' = kanbanItems
    /\ (\E op \in KanbanOperations : Answered(op))
       => users' = users /\ sessions' = sessions

\* C26: every query (getUser, getUserByEmail, getMentors, getStudents,
\* getUserSessions, getUpcomingSessions, getKanbanItems, the dashboard
\* request) leaves the three Maps unchanged, and every mutation changes at
\* most the Map of its own kind.
C26_Frame == [][FrameStep]_vars

\* the dashboard was asked for after the clock reached a session's time, in a
\* store whose three Maps had all been changed
C26_Witness ==
    /\ last.op = "GET /api/dashboard/stats/:userId"
    /\ \E id \in DOMAIN sessions : sessions[id].scheduledAt <= last.at
    /\ users # SeedUsers
    /\ sessions # SeedSessions
    /\ kanbanItems # SeedItems

(***************************************************************************)
(* The kanban page (client/src/pages/kanban.tsx): what it shows of the     *)
(* list that GET /api/kanban answered.                                     *)
(***************************************************************************)
statusColumns == <<"backlog", "todo", "in_progress", "done">>

getItemsByStatus(items, status) ==
    LET hasStatus(item) == Is(item, "status", status)
    IN SelectSeq(items, hasStatus)

\* the count shown in the header of each column
getStatusCounts(items) ==
    [id \in Range(statusColumns) |-> Len(getItemsByStatus(items, id))]

totalItems(items) == Len(items)

completedItems(items) == Len(getItemsByStatus(items, "done"))

\* Math.round((completedItems / totalItems) * 100), in doubles
progressPercentage(items) ==
    IF totalItems(items) > 0
    THEN MathRound(FMul(FDiv(completedItems(items), totalItems(items)), 100))
    ELSE 0

\* the cards of the board: column k shows the items of getItemsByStatus
Cards(items) ==
    {card \in (DOMAIN statusColumns) \X (1..Len(items)) :
        Is(items[card[2]], "status", statusColumns[card[1]])}

\* round(100 * done / total) in exact arithmetic, a half going up
ExactPercentage(done, total) == (200 * done + total) \div (2 * total)

\* C28: of the list that GET /api/kanban answered, every item is on the
\* board in exactly one of the four columns, the four column counts sum to
\* the number of items, and the sprint progress is 0 for an empty list and
\* round(100 * done / total) otherwise, within 0..100.
C28_BoardPartition ==
    last.op = "GET /api/kanban" =>
    LET items == last.json
        counts == getStatusCounts(items)
    IN /\ \A i \in 1..Len(items) :
            Cardinality({card \in Cards(items) : card[2] = i}) = 1
       /\ counts["backlog"] + counts["todo"] + counts["in_progress"] + counts["done"]
            = totalItems(items)
       /\ progressPercentage(items) \in 0..100
       /\ progressPercentage(items) =
            (IF totalItems(items) = 0 THEN 0
             ELSE ExactPercentage(completedItems(items), totalItems(items)))

\* the ids of the sessions in a list
IdsOf(list) == {list[i].id : i \in 1..Len(list)}

Cancelled(id) == Is(sessions[id], "status", "cancelled")

\* what one step does to the stored sessions and to the answers about them
PastStep ==
    /\ now' >= now
    /\ \A id \in DOMAIN sessions :
         /\ id \in DOMAIN sessions'
         /\ sessions'[id].id = id
         /\ sessions'[id].scheduledAt = sessions[id].scheduledAt
         /\ sessions[id].scheduledAt <= now =>
              /\ \A userId \in {sessions[id].studentId, sessions[id].mentorId} :
                    id \notin IdsOf(getUpcomingSessions(userId))'
              /\ Answered("GET /api/sessions/upcoming/:userId") => id \notin IdsOf(last'.json)
         /\ ( /\ sessions[id].scheduledAt > now
              /\ Cancelled(id)
              /\ Answered("PATCH /api/sessions/:id/status")
              /\ last'.arg[1] = id
              /\ ~Is(last'.arg[2], "status", "cancelled") )
            => \A userId \in {sessions[id].studentId, sessions[id].mentorId} :
                  id \in IdsOf(getUpcomingSessions(userId))'
    /\ Answered("GET /api/sessions/upcoming/:userId")
         => \A userId \in {last'.arg} : last'.json = getUpcomingSessions(userId)'

\* C29: no step changes a stored session's scheduledAt and the clock never
\* goes back, so a session whose scheduledAt is not after now is returned by
\* no getUpcomingSessions call made from then on, whatever status updates
\* follow; a cancelled session that is still to come is returned again once
\* its status is set to a value other than "cancelled".
C29_PastStaysPast == [][PastStep]_vars

\* an upcoming list asked for after the time of a generated session had come
\* and its status had been updated, while a seeded session that is still to
\* come had its status updated to a value other than "cancelled"
C29_Witness ==
    /\ last.op = "GET /api/sessions/upcoming/:userId"
    /\ last.arg = "student1"
    /\ "uuid-1" \in DOMAIN sessions
    /\ sessions["uuid-1"].studentId = "student1"
    /\ sessions["uuid-1"].scheduledAt <= last.at
    /\ sessions["uuid-1"].duration = 30
    /\ ~Has(sessions["uuid-1"], "status")
    /\ "uuid-1" \notin IdsOf(last.json)
    /\ ~Has(sessions["session2"], "status")
    /\ "session2" \in IdsOf(last.json)

\* the hour of the day of a Date
getHours(date) == (date % OneDay) \div OneHour

getDay(date) == date \div OneDay

\* C30: generateTimeSlots returns at most 20 slots, each earlier than the
\* next, each on the hour with the hour in 9..17, each on the day of the call
\* or one of the 6 days after it, and each strictly later than the time of
\* the call; no slot of the day of the call whose hour has started is among
\* them.
C30_TimeSlots ==
    event.op = "generateTimeSlots" =>
    LET slots == event.timeSlots
        today == event.today
    IN /\ Len(slots) <= 20
       /\ \A i \in 1..Len(slots), j \in 1..Len(slots) : i < j => slots[i] < slots[j]
       /\ \A i \in 1..Len(slots) :
            /\ slots[i] % OneHour = 0
            /\ getHours(slots[i]) \in 9..17
            /\ getDay(slots[i]) \in getDay(today)..(getDay(today) + 6)
            /\ slots[i] > today
       /\ \A hour \in 9..17 :
            hour * OneHour <= today % OneDay
            => getDay(today) * OneDay + hour * OneHour \notin Range(slots)

\* rendered at 11:00:00.000 sharp: the slot of 11:00 is left out, the first
\* slot is 12:00 of the same day and 20 slots are returned
C30_Witness ==
    /\ event.op = "generateTimeSlots"
    /\ event.today % OneDay = 11 * OneHour
    /\ Len(event.timeSlots) = 20
    /\ event.timeSlots[1] = event.today + OneHour
    /\ getDay(event.timeSlots[20]) = getDay(event.today) + 2

====
